---- MODULE Spec2Model ----
(***************************************************************************)
(* Word-level model of mm.c: an explicit-free-list allocator (first fit,   *)
(* LIFO insertion, boundary tags) on top of the heap-growth provider       *)
(* mem_sbrk.                                                               *)
(*                                                                         *)
(* Memory is a partial function from 4-byte-aligned addresses to the word  *)
(* last stored there; the allocator's operations are operators on a heap   *)
(* record h = [mem, brk, max, head, fault] that perform the reads and      *)
(* writes of the C code in the order the code performs them.               *)
(*                                                                         *)
(* The build is ILP32 (pointers are stored in 4-byte words and cast to     *)
(* int): size_t, unsigned int and pointers are 32 bits wide.  A 32-bit     *)
(* value is held as its two's complement reading, so 2^32 - k is written   *)
(* -k; + and - then agree with arithmetic modulo 2^32 as long as no result *)
(* crosses 2^31, which the bounded inputs guarantee.  Comparisons of       *)
(* size_t values go through ULT/ULE, which compare the unsigned readings.  *)
(***************************************************************************)
EXTENDS Integers, Sequences, FiniteSets, TLC

(* ------------------------------ bounds -------------------------------- *)

\* capacity of the provider's arena, in KB (memlib's MAX_HEAP, scaled down)
MaxHeapKB == 14

\* most blocks the caller holds at one time
MaxLive == 3

\* most calls of mm_malloc, mm_free and mm_realloc in one run
MaxCalls == 5

(* ------------------------ constants and macros ------------------------ *)

WSIZE == 4
DWSIZE == 8
MINSIZE == 16
CHUNKSIZE == 4096
ALLOCATED == 1
FREE == 0
NULL == 0

\* first address the provider hands out
MEM_START == 4096

\* mem_sbrk's failure value, (void *)-1
SBRK_FAILED == -1

\* unsigned comparison of two 32-bit values held as two's complement readings
ULT(a, b) == IF (a >= 0) = (b >= 0) THEN a < b ELSE a >= 0
ULE(a, b) == a = b \/ ULT(a, b)

\* a faulty mask, x & ~0x3, that lets a size keep bit 2
ClearLow3_low2(x) == x - (x % 4)

\* x & ~0x7 and x & 0x1
ClearLow3(x) == x - (x % 8)
Bit0(x) == x % 2

ALIGN(size) == ClearLow3(size + (DWSIZE - 1))

\* size | alloc
PACK(size, alloc) == IF Bit0(size) = 1 /\ alloc = 1 THEN size ELSE size + alloc

\* an address the process may access: a word of the provider's arena
InArena(h, a) == a >= MEM_START /\ a + WSIZE <= h.max /\ a % WSIZE = 0

GET(h, ptr) == h.mem[ptr]

\* a store outside the arena traps: the process stops, memory is as it was
SET(h, ptr, value) ==
    IF h.fault THEN h
    ELSE IF ~InArena(h, ptr) THEN [h EXCEPT !.fault = TRUE]
    ELSE IF ptr \in DOMAIN h.mem THEN [h EXCEPT !.mem[ptr] = value]
    ELSE [h EXCEPT !.mem = (ptr :> value) @@ @]

SIZE(h, hdr) == ClearLow3(GET(h, hdr))
ALLOC(h, hdr) == Bit0(GET(h, hdr))

HDR(ptr) == ptr - WSIZE
FTR(h, ptr) == ptr + SIZE(h, HDR(ptr)) - DWSIZE

NEXT(h, ptr) == ptr + SIZE(h, ptr - WSIZE)
PREV(h, ptr) == ptr - SIZE(h, ptr - DWSIZE)

PRED(fbp) == fbp
SUCC(fbp) == fbp + WSIZE

(* ------------------------- heap-growth provider ----------------------- *)

\* mem_sbrk(int incr): extend the break by incr bytes and return the old
\* break, or return (void *)-1 when the arena cannot hold the extension
mem_sbrk(h, incr) ==
    IF incr < 0 \/ h.brk + incr > h.max
    THEN [h |-> h, ret |-> SBRK_FAILED]
    ELSE [h |-> [h EXCEPT !.brk = @ + incr], ret |-> h.brk]

\* the test "(p = mem_sbrk(...)) < 0" on a char *: an ordered comparison of
\* a pointer with 0.  A build that compares pointers as unsigned never finds
\* it true; one that compares them as signed finds it true of (void *)-1.
PtrLtZero(p, signed) == signed /\ p < 0

(* ------------------------------ free list ----------------------------- *)
(* Every operator that changes the heap takes the heap as its first        *)
(* argument and leaves a stopped process (h.fault) as it is, so the        *)
(* statements of a C function compose by nesting, in program order.        *)

SetIf(h, cond, ptr, value) == IF cond THEN SET(h, ptr, value) ELSE h

\* a faulty insertion that puts ptr behind the first block of the list
LinkFront_behind(h, ptr, first) ==
    IF first = NULL
    THEN SET(SET(SET(h, SUCC(h.head), ptr), PRED(ptr), h.head), SUCC(ptr), first)
    ELSE SetIf(SET(SET(SET(h, SUCC(first), ptr), PRED(ptr), first),
                   SUCC(ptr), GET(h, SUCC(first))),
               GET(h, SUCC(first)) # NULL, PRED(GET(h, SUCC(first))), ptr)

\* insert ptr at the front of the free list; first is GET(SUCC(head))
LinkFront(h, ptr, first) ==
    SetIf(SET(SET(SET(h, SUCC(h.head), ptr), PRED(ptr), h.head),
              SUCC(ptr), first),
          first # NULL, PRED(first), ptr)

InsertFront(h, ptr) ==
    IF h.fault THEN h ELSE LinkFront(h, ptr, GET(h, SUCC(h.head)))

\* a faulty Unlink that leaves the block on the free list
Unlink_keep(h, bp) == h

\* a faulty removal that leaves the successor's predecessor link as it was
Splice_nopred(h, pred, succ) == SET(h, SUCC(pred), succ)

\* remove from the free list the block whose links are pred and succ
Splice(h, pred, succ) ==
    SetIf(SET(h, SUCC(pred), succ), succ # NULL, PRED(succ), pred)

Unlink(h, bp) ==
    IF h.fault THEN h ELSE Splice(h, GET(h, PRED(bp)), GET(h, SUCC(bp)))

\* SET(FTR(ptr), value): the footer's place is read from the header
SetFtr(h, ptr, value) == IF h.fault THEN h ELSE SET(h, FTR(h, ptr), value)

\* a faulty SetTags whose footer always says free
SetTags_ftrfree(h, ptr, size, alloc) ==
    SetFtr(SET(h, HDR(ptr), PACK(size, alloc)), ptr, PACK(size, FREE))

\* write header, then footer, of the block at ptr
SetTags(h, ptr, size, alloc) ==
    SetFtr(SET(h, HDR(ptr), PACK(size, alloc)), ptr, PACK(size, alloc))

\* SET(HDR(NEXT(ptr)), PACK(0, ALLOCATED)): the epilogue after block ptr
SetEpilogue(h, ptr) ==
    IF h.fault THEN h ELSE SET(h, HDR(NEXT(h, ptr)), PACK(0, ALLOCATED))

(* ------------------------------ coalesce ------------------------------ *)

\* a faulty coalesce that moves a free predecessor to the front of the list
coalesce_relink(h, ptr) ==
    IF h.fault THEN [h |-> h, ret |-> ptr]
    ELSE IF ALLOC(h, HDR(PREV(h, ptr))) = 1 /\ ALLOC(h, HDR(NEXT(h, ptr))) = 1
    THEN [h |-> InsertFront(h, ptr), ret |-> ptr]
    ELSE IF ALLOC(h, HDR(PREV(h, ptr))) = 1
    THEN [h |-> InsertFront(
                    Unlink(SetTags(h, ptr,
                                   SIZE(h, HDR(ptr))
                                       + SIZE(h, HDR(NEXT(h, ptr))), FREE),
                           NEXT(h, ptr)),
                    ptr),
          ret |-> ptr]
    ELSE IF ALLOC(h, HDR(NEXT(h, ptr))) = 1
    THEN [h |-> InsertFront(
                    Unlink(SetTags(h, PREV(h, ptr),
                                   SIZE(h, HDR(ptr))
                                       + SIZE(h, HDR(PREV(h, ptr))), FREE),
                           PREV(h, ptr)),
                    PREV(h, ptr)),
          ret |-> PREV(h, ptr)]
    ELSE [h |-> InsertFront(
                    Unlink(Unlink(SetTags(h, PREV(h, ptr),
                                          SIZE(h, HDR(ptr))
                                              + SIZE(h, HDR(PREV(h, ptr)))
                                              + SIZE(h, HDR(NEXT(h, ptr))),
                                          FREE),
                                  NEXT(h, ptr)),
                           PREV(h, ptr)),
                    PREV(h, ptr)),
          ret |-> PREV(h, ptr)]

\* a faulty coalesce that never merges: every freed block is inserted as is
coalesce_nomerge(h, ptr) == [h |-> InsertFront(h, ptr), ret |-> ptr]

coalesce(h, ptr) ==
    IF h.fault THEN [h |-> h, ret |-> ptr]
    ELSE
    LET prev == PREV(h, ptr)
        next == NEXT(h, ptr)
        prev_alloc == ALLOC(h, HDR(prev))
        next_alloc == ALLOC(h, HDR(next))
        size == SIZE(h, HDR(ptr))
    IN  IF prev_alloc = 1 /\ next_alloc = 1 THEN
            [h |-> InsertFront(h, ptr), ret |-> ptr]
        ELSE IF prev_alloc = 1 /\ next_alloc = 0 THEN
            [h |-> InsertFront(
                       Unlink(SetTags(h, ptr, size + SIZE(h, HDR(next)), FREE),
                              next),
                       ptr),
             ret |-> ptr]
        ELSE IF prev_alloc = 0 /\ next_alloc = 1 THEN
            [h |-> SetTags(h, prev, size + SIZE(h, HDR(prev)), FREE),
             ret |-> prev]
        ELSE
            [h |-> Unlink(SetTags(h, prev,
                                  size + SIZE(h, HDR(prev)) + SIZE(h, HDR(next)),
                                  FREE),
                          next),
             ret |-> prev]

(* ------------------------------ mm_init ------------------------------- *)
(* A result is [h, ret, nomem]: the heap, the value returned (unless the   *)
(* process was stopped) and whether a mem_sbrk call of the operation       *)
(* failed.                                                                 *)

\* create prologue & epilogue block
InitSentinels(h, heap_btm) ==
    SET(SET(SET(SET(SET(SET(h, heap_btm, 0),
                        heap_btm + (1 * WSIZE), PACK(4 * WSIZE, ALLOCATED)),
                    heap_btm + (2 * WSIZE), 0),
                heap_btm + (3 * WSIZE), 0),
            heap_btm + (4 * WSIZE), PACK(4 * WSIZE, ALLOCATED)),
        heap_btm + (5 * WSIZE), PACK(0, ALLOCATED))

SetHead(h, ptr) == IF h.fault THEN h ELSE [h EXCEPT !.head = ptr]

\* create a free block of CHUNKSIZE bytes and make it the free list
InitFree(h, oldbrk) ==
    SET(SET(SET(SetEpilogue(SetTags(h, oldbrk, CHUNKSIZE, FREE), oldbrk),
                SUCC(h.head), oldbrk),
            PRED(oldbrk), h.head),
        SUCC(oldbrk), 0)

\* s2 is what mem_sbrk(CHUNKSIZE) gave
InitChunk(s2, signed) ==
    IF PtrLtZero(s2.ret, signed)
    THEN [h |-> s2.h, ret |-> -1, nomem |-> TRUE]
    ELSE [h |-> InitFree(s2.h, s2.ret), ret |-> 0,
          nomem |-> s2.ret = SBRK_FAILED]

InitGrow(h, signed) ==
    IF h.fault THEN [h |-> h, ret |-> 0, nomem |-> TRUE]
    ELSE InitChunk(mem_sbrk(h, CHUNKSIZE), signed)

\* s1 is what mem_sbrk(6 * WSIZE) gave
InitBody(s1, signed) ==
    IF PtrLtZero(s1.ret, signed)
    THEN [h |-> s1.h, ret |-> -1, nomem |-> TRUE]
    ELSE InitGrow(SetHead(InitSentinels(s1.h, s1.ret), s1.ret + (2 * WSIZE)),
                  signed)

mm_init(h, signed) == InitBody(mem_sbrk(h, 6 * WSIZE), signed)

(* ------------------------ allocation, shared steps -------------------- *)
(* mm_malloc and mm_realloc hold the same text for computing the block     *)
(* size, finding or growing a block and taking it off the free list.       *)

\* allocated size: aligned size + 2 words, never smaller than MINSIZE
AdjustedSize(size) ==
    IF ULE(size, MINSIZE - DWSIZE) THEN MINSIZE ELSE ALIGN(size) + DWSIZE

\* a faulty search that takes the first free block whatever its size
FirstFitFrom_any(h, bp, asize) == bp

\* choose first fit free block, starting at bp
RECURSIVE FirstFitFrom(_, _, _)
FirstFitFrom(h, bp, asize) ==
    IF bp = NULL THEN NULL
    ELSE IF ULE(asize, SIZE(h, HDR(bp))) THEN bp
    ELSE FirstFitFrom(h, GET(h, SUCC(bp)), asize)

\* a faulty search that starts at the second block of the free list
FirstFit_second(h, asize) ==
    IF GET(h, SUCC(h.head)) = NULL THEN NULL
    ELSE FirstFitFrom(h, GET(h, SUCC(GET(h, SUCC(h.head)))), asize)

FirstFit(h, asize) == FirstFitFrom(h, GET(h, SUCC(h.head)), asize)

\* a found block is [h, newptr, failed, nomem]; failed: the code took its
\* "return NULL" branch

\* a faulty merge that does not test whether the last block is free
MergeNew_always(h, oldbrk, exsize, nomem) ==
    IF h.fault
    THEN [h |-> h, newptr |-> NULL, failed |-> FALSE, nomem |-> nomem]
    ELSE [h |-> SetTags(h, PREV(h, oldbrk),
                        exsize + SIZE(h, HDR(PREV(h, oldbrk))), FREE),
          newptr |-> PREV(h, oldbrk), failed |-> FALSE, nomem |-> nomem]

\* coalesce and insert the new free block at oldbrk
MergeNew(h, oldbrk, exsize, nomem) ==
    IF h.fault
    THEN [h |-> h, newptr |-> NULL, failed |-> FALSE, nomem |-> nomem]
    ELSE IF ALLOC(h, HDR(PREV(h, oldbrk))) = 1
    THEN [h |-> InsertFront(h, oldbrk), newptr |-> oldbrk,
          failed |-> FALSE, nomem |-> nomem]
    ELSE [h |-> SetTags(h, PREV(h, oldbrk),
                        exsize + SIZE(h, HDR(PREV(h, oldbrk))), FREE),
          newptr |-> PREV(h, oldbrk), failed |-> FALSE, nomem |-> nomem]

\* s is what mem_sbrk(exsize) gave
Extended(s, exsize, signed) ==
    IF PtrLtZero(s.ret, signed)
    THEN [h |-> s.h, newptr |-> NULL, failed |-> TRUE, nomem |-> TRUE]
    ELSE MergeNew(SetEpilogue(SetTags(s.h, s.ret, exsize, FREE), s.ret),
                  s.ret, exsize, s.ret = SBRK_FAILED)

\* a faulty extension size: asize even where it is below CHUNKSIZE
ExSize_asize(asize) == asize

ExSize(asize) == IF ULT(CHUNKSIZE, asize) THEN asize ELSE CHUNKSIZE

\* no fit found: extend the heap
ExtendHeap(h, asize, signed) ==
    Extended(mem_sbrk(h, ExSize(asize)), ExSize(asize), signed)

\* the block to allocate from: the first fit, or the extended heap's block
FindBlock(h, asize, signed) ==
    IF FirstFit(h, asize) = NULL THEN ExtendHeap(h, asize, signed)
    ELSE [h |-> h, newptr |-> FirstFit(h, asize), failed |-> FALSE,
          nomem |-> FALSE]

\* a faulty rule that splits whatever the size of the remainder
FinalSize_always(fsize, asize) == asize

\* modify asize to avoid a remaining block smaller than MINSIZE
FinalSize(fsize, asize) == IF ULT(fsize - asize, MINSIZE) THEN fsize ELSE asize

\* set header/footer of the allocated block and remove it from the free list
Place(h, newptr, asize) == Unlink(SetTags(h, newptr, asize, ALLOCATED), newptr)

\* a faulty split that creates no remaining block
SplitRest_none(h, newptr, asize, fsize) == h

\* the remaining free block at newfree
Remainder(h, newfree, size) ==
    IF h.fault THEN h ELSE coalesce(SetTags(h, newfree, size, FREE), newfree).h

\* create the remaining free block if it exists
SplitRest(h, newptr, asize, fsize) ==
    IF h.fault \/ ~ULT(asize, fsize) THEN h
    ELSE Remainder(h, NEXT(h, newptr), fsize - asize)

(* ------------------------------ mm_malloc ----------------------------- *)

\* b is the block found for a request of block size asize
MallocAt(b, asize) ==
    IF b.failed \/ b.h.fault THEN [h |-> b.h, ret |-> NULL, nomem |-> b.nomem]
    ELSE [h |-> SplitRest(Place(b.h, b.newptr,
                                FinalSize(SIZE(b.h, HDR(b.newptr)), asize)),
                          b.newptr,
                          FinalSize(SIZE(b.h, HDR(b.newptr)), asize),
                          SIZE(b.h, HDR(b.newptr))),
          ret |-> b.newptr, nomem |-> b.nomem]

\* a faulty mm_malloc that does not test size against 0
mm_malloc_nozero(h, size, signed) ==
    MallocAt(FindBlock(h, AdjustedSize(size), signed), AdjustedSize(size))

mm_malloc(h, size, signed) ==
    IF size = 0 THEN [h |-> h, ret |-> NULL, nomem |-> FALSE]
    ELSE MallocAt(FindBlock(h, AdjustedSize(size), signed), AdjustedSize(size))

(* ------------------------------- mm_free ------------------------------ *)

\* a faulty free that coalesces without marking the block free
FreeBlock_notags(h, ptr, size) == IF h.fault THEN h ELSE coalesce(h, ptr).h

\* set header/footer of the freed block and coalesce
FreeBlock(h, ptr, size) ==
    IF h.fault THEN h ELSE coalesce(SetTags(h, ptr, size, FREE), ptr).h

mm_free(h, ptr) ==
    IF ptr # NULL THEN FreeBlock(h, ptr, SIZE(h, HDR(ptr))) ELSE h

(* ------------------------------ mm_realloc ---------------------------- *)

\* memcpy(dst, src, n), n a size_t.  A word of src that was never stored
\* holds no determined value and leaves the word of dst undetermined too;
\* a copy that runs off the arena stops the process.
memcpy(h, dst, src, n) ==
    IF h.fault THEN h
    ELSE IF n < 0 \/ (n > 0 /\ (~InArena(h, dst + n - WSIZE)
                                \/ ~InArena(h, src + n - WSIZE)))
    THEN [h EXCEPT !.fault = TRUE]
    ELSE [h EXCEPT !.mem =
             [a \in {x \in DOMAIN h.mem : x < dst \/ x >= dst + n}
                    \cup {x - src + dst :
                            x \in {y \in DOMAIN h.mem : y >= src /\ y < src + n}}
              |-> IF a >= dst /\ a < dst + n THEN h.mem[a - dst + src]
                  ELSE h.mem[a]]]

SmallSize(oldsize, asize) == IF ULT(oldsize, asize) THEN oldsize ELSE asize

\* a faulty move that does not test ptr against NULL
MoveOld_nonull(h, newptr, ptr, oldsize, asize) ==
    FreeBlock(memcpy(h, newptr, ptr, SmallSize(oldsize, asize) - DWSIZE),
              ptr, oldsize)

\* a faulty order: the old block is freed before its data is copied
MoveOld_freefirst(h, newptr, ptr, oldsize, asize) ==
    IF ptr = NULL THEN h
    ELSE memcpy(FreeBlock(h, ptr, oldsize), newptr, ptr,
                SmallSize(oldsize, asize) - DWSIZE)

\* copy old data, then set header/footer of the freed block and coalesce
MoveOld(h, newptr, ptr, oldsize, asize) ==
    IF ptr = NULL THEN h
    ELSE FreeBlock(memcpy(h, newptr, ptr, SmallSize(oldsize, asize) - DWSIZE),
                   ptr, oldsize)

\* b is the block found for a request of block size asize
ReallocAt(b, asize, ptr, oldsize) ==
    IF b.failed \/ b.h.fault THEN [h |-> b.h, ret |-> NULL, nomem |-> b.nomem]
    ELSE [h |-> SplitRest(
                    MoveOld(Place(b.h, b.newptr,
                                  FinalSize(SIZE(b.h, HDR(b.newptr)), asize)),
                            b.newptr, ptr, oldsize,
                            FinalSize(SIZE(b.h, HDR(b.newptr)), asize)),
                    b.newptr,
                    FinalSize(SIZE(b.h, HDR(b.newptr)), asize),
                    SIZE(b.h, HDR(b.newptr))),
          ret |-> b.newptr, nomem |-> b.nomem]

\* oldsize is read only when ptr is not NULL
OldSize(h, ptr) == IF ptr # NULL THEN SIZE(h, HDR(ptr)) ELSE 0

mm_realloc(h, ptr, size, signed) ==
    IF size = 0 THEN
        [h |-> IF ptr # NULL THEN FreeBlock(h, ptr, OldSize(h, ptr)) ELSE h,
         ret |-> NULL, nomem |-> FALSE]
    ELSE ReallocAt(FindBlock(h, AdjustedSize(size), signed), AdjustedSize(size),
                   ptr, OldSize(h, ptr))

(* ---------------------------- state machine --------------------------- *)

VARIABLES
    mem,         \* the heap's words: address -> word last stored
    mem_brk,     \* the provider's break: end of the granted region
    mem_max,     \* end of the provider's arena
    head,        \* static char *head
    fault,       \* the process was stopped by a store outside the arena
    ptr_cmp,     \* how the build compares a pointer with 0: "signed" or
                 \* "unsigned"; "unknown" until a run first depends on it
    status,      \* "start", "ready" (mm_init returned 0), "failed" (-1)
    live,        \* the caller's blocks: address -> size requested
    held,        \* allocations the caller holds: successful allocations
                 \* minus blocks given back
    last,        \* the last call: [op, ptr, size, ret, nomem]
    calls        \* calls made since mm_init

vars == <<mem, mem_brk, mem_max, head, fault, ptr_cmp, status, live, held,
          last, calls>>

\* request sizes the caller uses (their block sizes do not wrap)
Requests == {1, 13, 4077, 4999}

\* request sizes of 2^31 and more: 2^32 - 8 and 2^32 - 1, whose block size
\* wraps to 0 and to 8, and 2^32 - 2000000000, whose block size does not wrap
WideRequests == {-8, -1, -2000000000}

\* arena capacities: none, the sentinel words only, and MaxHeapKB
HeapCaps == {0, 6 * WSIZE, MaxHeapKB * 1024}

Cur == [mem |-> mem, brk |-> mem_brk, max |-> mem_max, head |-> head,
        fault |-> fault]

Empty == [a \in {} |-> 0]

Without(f, p) == [a \in (DOMAIN f) \ {p} |-> f[a]]
With(f, p, n) == [a \in (DOMAIN f) \cup {p} |-> IF a = p THEN n ELSE f[a]]

Call(op, ptr, size, ret, nomem) ==
    [op |-> op, ptr |-> ptr, size |-> size, ret |-> ret, nomem |-> nomem]

Init ==
    /\ mem = Empty
    /\ mem_brk = MEM_START
    /\ mem_max \in {MEM_START + c : c \in HeapCaps}
    /\ head = NULL
    /\ fault = FALSE
    /\ ptr_cmp = "unknown"
    /\ status = "start"
    /\ live = Empty
    /\ held = 0
    /\ last = Call("none", NULL, 0, 0, FALSE)
    /\ calls = 0

\* the comparisons the build may make where a call's mem_sbrk fails; a call
\* whose mem_sbrk succeeds runs the same under either
Builds(nomem) ==
    IF ~nomem THEN {ptr_cmp}
    ELSE IF ptr_cmp = "unknown" THEN {"signed", "unsigned"} ELSE {ptr_cmp}

Install(h, build) ==
    /\ mem' = h.mem
    /\ mem_brk' = h.brk
    /\ head' = h.head
    /\ fault' = h.fault
    /\ ptr_cmp' = build
    /\ UNCHANGED mem_max

Ready == status = "ready" /\ ~fault /\ calls < MaxCalls

MmInit ==
    /\ status = "start" /\ ~fault
    /\ \E build \in Builds(mm_init(Cur, FALSE).nomem) :
          \E r \in {mm_init(Cur, build = "signed")} :
              /\ Install(r.h, build)
              /\ status' = IF r.h.fault THEN "start"
                           ELSE IF r.ret = 0 THEN "ready" ELSE "failed"
              /\ last' = Call("init", NULL, 0, r.ret, r.nomem)
    /\ UNCHANGED <<live, held, calls>>

\* the words of a block of n requested bytes that the caller writes: the
\* first two and the last
StoreOffsets(n) ==
    IF n < 0 THEN {0, WSIZE}
    ELSE {i \in {0, WSIZE, ((n + WSIZE - 1) \div WSIZE - 1) * WSIZE} : i < n}

Pattern(a) == 100000 + a

\* the caller fills the block it obtained from mm_malloc
Fill(h, ptr, n) ==
    IF h.fault \/ ptr = NULL THEN h
    ELSE [h EXCEPT !.mem =
             [a \in (DOMAIN h.mem) \cup {ptr + i : i \in StoreOffsets(n)} |->
                 IF a - ptr \in StoreOffsets(n) THEN Pattern(a) ELSE h.mem[a]]]

\* the caller's bookkeeping after an allocation that returned ret
Took(l, ret, size) == IF ret # NULL THEN With(l, ret, size) ELSE l

\* a run ends with its first call on a null pointer, on a zero size or on a
\* size of 2^31 or more
Spend(ptr, size) == IF ptr = NULL \/ size <= 0 THEN MaxCalls ELSE calls + 1

Gain(ret) == IF ret # NULL THEN 1 ELSE 0

DoMalloc(size) ==
    \E build \in Builds(mm_malloc(Cur, size, FALSE).nomem) :
       \E r \in {mm_malloc(Cur, size, build = "signed")} :
           /\ Install(Fill(r.h, r.ret, size), build)
           /\ live' = IF r.h.fault THEN live ELSE Took(live, r.ret, size)
           /\ held' = IF r.h.fault THEN held ELSE held + Gain(r.ret)
           /\ last' = Call("malloc", NULL, size, r.ret, r.nomem)
           /\ calls' = Spend(1, size)
           /\ UNCHANGED status

DoFree(ptr) ==
    /\ Install(mm_free(Cur, ptr), ptr_cmp)
    /\ live' = Without(live, ptr)
    /\ held' = held - Gain(ptr)
    /\ last' = Call("free", ptr, 0, NULL, FALSE)
    /\ calls' = Spend(ptr, 1)
    /\ UNCHANGED status

DoRealloc(ptr, size) ==
    \E build \in Builds(mm_realloc(Cur, ptr, size, FALSE).nomem) :
       \E r \in {mm_realloc(Cur, ptr, size, build = "signed")} :
           /\ Install(IF ptr = NULL THEN Fill(r.h, r.ret, size) ELSE r.h, build)
           /\ live' = IF r.h.fault THEN live
                      ELSE IF size = 0 \/ r.ret # NULL
                           THEN Took(Without(live, ptr), r.ret, size)
                           ELSE live
           /\ held' = IF r.h.fault THEN held
                      ELSE IF size = 0 \/ r.ret # NULL
                           THEN held - Gain(ptr) + Gain(r.ret)
                           ELSE held
           /\ last' = Call("realloc", ptr, size, r.ret, r.nomem)
           /\ calls' = Spend(ptr, size)
           /\ UNCHANGED status

Malloc ==
    /\ Ready
    /\ \E size \in Requests \cup {0} :
          /\ size # 0 => Cardinality(DOMAIN live) < MaxLive
          /\ DoMalloc(size)

Free ==
    /\ Ready
    /\ \E ptr \in (DOMAIN live) \cup {NULL} : DoFree(ptr)

Realloc ==
    /\ Ready
    /\ \E ptr \in (DOMAIN live) \cup {NULL}, size \in Requests \cup {0} :
          /\ (ptr = NULL /\ size # 0) => Cardinality(DOMAIN live) < MaxLive
          /\ DoRealloc(ptr, size)

Next == MmInit \/ Malloc \/ Free \/ Realloc

Spec == Init /\ [][Next]_vars

\* the same caller, who may also ask for 2^31 bytes or more
MallocWide ==
    /\ Ready
    /\ Cardinality(DOMAIN live) < MaxLive
    /\ \E size \in WideRequests : DoMalloc(size)

ReallocWide ==
    /\ Ready
    /\ \E ptr \in (DOMAIN live) \cup {NULL}, size \in WideRequests :
          /\ ptr = NULL => Cardinality(DOMAIN live) < MaxLive
          /\ DoRealloc(ptr, size)

NextWide == Next \/ MallocWide \/ ReallocWide

SpecWide == Init /\ [][NextWide]_vars

(* ------------------------- observing the heap ------------------------- *)

\* mm_init has returned 0 and no call has stopped the process
Stable == status = "ready" /\ ~fault

\* bytes granted by the provider: every mem_sbrk call moved the break
Granted == mem_brk - MEM_START

\* more blocks than the granted region can hold
Fuel == Granted \div DWSIZE

\* block pointers from bp on, in address order, up to a header of size 0
RECURSIVE Walk(_, _, _)
Walk(h, bp, fuel) ==
    IF fuel = 0 \/ HDR(bp) \notin DOMAIN h.mem THEN <<>>
    ELSE IF SIZE(h, HDR(bp)) <= 0 THEN <<>>
    ELSE <<bp>> \o Walk(h, NEXT(h, bp), fuel - 1)

\* the blocks between the prologue and the epilogue
Blocks == IF Stable THEN Walk(Cur, NEXT(Cur, head), Fuel) ELSE <<>>

\* the blocks reached by successor links from bp on
RECURSIVE ListFrom(_, _, _)
ListFrom(h, bp, fuel) ==
    IF bp = NULL \/ fuel = 0 \/ SUCC(bp) \notin DOMAIN h.mem THEN <<>>
    ELSE <<bp>> \o ListFrom(h, GET(h, SUCC(bp)), fuel - 1)

FreeList == IF Stable THEN ListFrom(Cur, GET(Cur, SUCC(head)), Fuel) ELSE <<>>

Range(seq) == {seq[i] : i \in 1..Len(seq)}

IsFree(bp) == ALLOC(Cur, HDR(bp)) = 0

RECURSIVE SumSizes(_, _)
SumSizes(h, seq) ==
    IF seq = <<>> THEN 0 ELSE SIZE(h, HDR(Head(seq))) + SumSizes(h, Tail(seq))

(* ------------------------------- claims ------------------------------- *)

\* C1: after mm_init and any calls, no two physically adjacent blocks between
\* the prologue and the epilogue are both marked free.
C1_NoAdjacentFree ==
    Stable => \A i \in 1..(Len(Blocks) - 1) :
                  ~(IsFree(Blocks[i]) /\ IsFree(Blocks[i + 1]))

\* a block was freed and lies inside a free block that starts before it: it
\* was merged into its physical predecessor
C1_Witness ==
    /\ Stable /\ last.op \in {"free", "realloc"} /\ last.ptr # NULL
    /\ \E i \in 1..Len(Blocks) :
          /\ IsFree(Blocks[i])
          /\ Blocks[i] < last.ptr /\ last.ptr < NEXT(Cur, Blocks[i])

\* C2: the blocks reached by successor links from head are exactly the blocks
\* between prologue and epilogue whose header is marked free, and none is
\* reached twice.
C2_FreeListExact ==
    Stable => /\ Range(FreeList) = {bp \in Range(Blocks) : IsFree(bp)}
              /\ Cardinality(Range(FreeList)) = Len(FreeList)

\* a call of mm_realloc left two blocks on the free list
C2_Witness ==
    Stable /\ last.op = "realloc" /\ last.ret # NULL /\ Len(FreeList) >= 2

\* C3 (as stated): the sizes of the blocks between the prologue and the
\* epilogue add up to the bytes granted by the provider.
C3_SumIsGranted == Stable => SumSizes(Cur, Blocks) = Granted

\* C3 (amended): the sizes add up to the bytes granted less the 6 words that
\* mm_init reserved for the padding, the prologue and the epilogue, and the
\* last block ends at the epilogue header, the last word granted.
C3_SumIsGrantedLessSentinels ==
    Stable => /\ SumSizes(Cur, Blocks) = Granted - 6 * WSIZE
              /\ NEXT(Cur, head) + SumSizes(Cur, Blocks) = mem_brk
              /\ GET(Cur, mem_brk - WSIZE) = PACK(0, ALLOCATED)

\* the heap has grown since mm_init and holds several blocks
C3_Witness ==
    Stable /\ Granted > 6 * WSIZE + CHUNKSIZE /\ Len(Blocks) >= 3

\* C5: the payloads of the blocks the caller holds are pairwise disjoint, lie
\* between the prologue and the epilogue, and none is the prologue's payload.
PayloadEnd(p) == p + SIZE(Cur, HDR(p)) - DWSIZE

C5_LiveDisjoint ==
    Stable =>
        /\ Cardinality(DOMAIN live) = held
        /\ \A p \in DOMAIN live :
              /\ p # head
              /\ p >= NEXT(Cur, head) /\ p < PayloadEnd(p)
              /\ PayloadEnd(p) <= mem_brk - DWSIZE
        /\ \A p, q \in DOMAIN live : p < q => PayloadEnd(p) <= q

\* the caller holds MaxLive blocks, the last one obtained from mm_realloc
C5_Witness ==
    Stable /\ Cardinality(DOMAIN live) = MaxLive /\ last.op = "realloc"
           /\ last.ptr # NULL /\ last.ret # NULL

\* C6: with the provider's first address a multiple of 8, every non-null
\* address returned by mm_malloc or mm_realloc is a multiple of 8.
C6_Aligned ==
    (~fault /\ last.op \in {"malloc", "realloc"} /\ last.ret # NULL)
        => (MEM_START % DWSIZE = 0 => last.ret % DWSIZE = 0)

\* mm_realloc returned a block for a request that is no multiple of 8, on a
\* heap that has grown
C6_Witness ==
    /\ Stable /\ last.op = "realloc" /\ last.ret # NULL /\ last.size = 13
    /\ Granted > 6 * WSIZE + CHUNKSIZE

\* C4: for every request size n > 0 of the 32-bit size type, a non-null
\* address returned by mm_malloc(n) or mm_realloc(p, n) is that of a block
\* whose size less the 8 bytes of header and footer is at least n.
C4_UsableSize ==
    (~fault /\ last.op \in {"malloc", "realloc"} /\ last.size # 0
            /\ last.ret # NULL)
        => ULE(last.size, SIZE(Cur, HDR(last.ret)) - DWSIZE)

\* the heap as the step leaves it
CurNext == [mem |-> mem', brk |-> mem_brk', max |-> mem_max', head |-> head',
            fault |-> fault']

Min(a, b) == IF a < b THEN a ELSE b

\* the step is a successful mm_realloc of a live block to a size n > 0
ReallocMoved ==
    /\ last'.op = "realloc" /\ last'.ptr # NULL /\ last'.size # 0
    /\ last'.ret # NULL /\ ~fault'

\* the bytes both payloads have room for
Kept == Min(SIZE(Cur, HDR(last'.ptr)), SIZE(CurNext, HDR(last'.ret))) - DWSIZE

\* C7: a successful q = mm_realloc(p, n), n > 0, leaves the first
\* min(old payload, new payload) bytes at q equal to what p held before the
\* call.
C7_ReallocPreserves ==
    [][ReallocMoved =>
          \A a \in DOMAIN mem :
              (a >= last'.ptr /\ a < last'.ptr + Kept) =>
                  /\ (a - last'.ptr) + last'.ret \in DOMAIN mem'
                  /\ mem'[(a - last'.ptr) + last'.ret] = mem[a]]_vars

\* mm_realloc grew a block across a heap growth, and the new block starts
\* with the word the caller stored at the start of the old one
C7_Witness ==
    /\ Stable /\ last.op = "realloc" /\ last.ptr # NULL /\ last.ret # NULL
    /\ last.size = 4999 /\ last.nomem = FALSE
    /\ Granted > 6 * WSIZE + CHUNKSIZE
    /\ last.ret \in DOMAIN mem /\ mem[last.ret] = Pattern(last.ptr)

\* C8: when mem_sbrk fails during mm_malloc or mm_realloc, the call returns
\* NULL and leaves the heap's words, head, the break and the caller's blocks
\* as they were.
C8_FailureLeavesState ==
    [][(last'.op \in {"malloc", "realloc"} /\ last'.nomem) =>
          /\ ~fault' /\ last'.ret = NULL
          /\ mem' = mem /\ head' = head /\ mem_brk' = mem_brk
          /\ live' = live]_vars

\* C9: mm_init returns -1 exactly when one of its mem_sbrk calls fails, and
\* then no word of the heap and no free-list state has been written.
C9_InitAllOrNothing ==
    last.op = "init" =>
        /\ last.nomem <=> (~fault /\ last.ret = -1)
        /\ (~fault /\ last.ret = -1) => (mem = Empty /\ head = NULL)

\* the address mm_malloc(n) returns after mm_free(p), from the current heap
Again(p, n) == mm_malloc(mm_free(Cur, p), n, ptr_cmp = "signed")

\* C10: if p = mm_malloc(n), n > 0, succeeds, then mm_free(p) followed by
\* mm_malloc(n) returns p.
C10_FreeThenMallocReuses ==
    (Stable /\ last.op = "malloc" /\ last.size # 0 /\ last.ret # NULL)
        => /\ ~Again(last.ret, last.size).h.fault
           /\ Again(last.ret, last.size).ret = last.ret

\* mm_malloc returned p while other blocks were on the free list, one of them
\* at a lower address, and freeing p and asking again gives p
C10_Witness ==
    /\ Stable /\ last.op = "malloc" /\ last.size # 0 /\ last.ret # NULL
    /\ Len(FreeList) >= 2
    /\ \E i \in 1..Len(FreeList) : FreeList[i] < last.ret
    /\ Again(last.ret, last.size).ret = last.ret

\* C11: from every reachable state, mm_realloc(NULL, n) returns the address
\* and leaves the heap that mm_malloc(n) does, and mm_realloc(p, 0) for a live
\* p returns NULL and leaves the heap that mm_free(p) does.
C11_ReallocDegenerate ==
    Stable =>
        /\ \A n \in Requests :
              /\ mm_realloc(Cur, NULL, n, TRUE) = mm_malloc(Cur, n, TRUE)
              /\ mm_malloc(Cur, n, TRUE).nomem =>
                    mm_realloc(Cur, NULL, n, FALSE) = mm_malloc(Cur, n, FALSE)
        /\ \A p \in DOMAIN live :
              /\ mm_realloc(Cur, p, 0, FALSE).ret = NULL
              /\ mm_realloc(Cur, p, 0, FALSE).h = mm_free(Cur, p)

\* mm_realloc(NULL, n) grew the heap and returned a block while the caller
\* held other blocks
C11_Witness ==
    /\ Stable /\ last.op = "realloc" /\ last.ptr = NULL /\ last.ret # NULL
    /\ Granted > 6 * WSIZE + CHUNKSIZE /\ Cardinality(DOMAIN live) >= 2
    /\ mm_realloc(Cur, NULL, 13, FALSE) = mm_malloc(Cur, 13, FALSE)

\* the step is mm_malloc(0), mm_free(NULL) or mm_realloc(NULL, 0)
NoOpCall ==
    \/ last'.op = "malloc" /\ last'.size = 0
    \/ last'.op = "free" /\ last'.ptr = NULL
    \/ last'.op = "realloc" /\ last'.ptr = NULL /\ last'.size = 0

\* C12: mm_malloc(0), mm_free(NULL) and mm_realloc(NULL, 0) return (NULL,
\* where they return a value) without calling mem_sbrk and leave every word
\* of the heap, head and the break as they were.
C12_NoOpCalls ==
    [][NoOpCall =>
          /\ last'.ret = NULL /\ ~last'.nomem /\ ~fault'
          /\ mem' = mem /\ head' = head /\ mem_brk' = mem_brk
          /\ live' = live]_vars

\* mm_realloc(NULL, 0) was called on a heap with blocks held and two blocks
\* on the free list
C12_Witness ==
    /\ Stable /\ last.op = "realloc" /\ last.ptr = NULL /\ last.size = 0
    /\ Len(FreeList) >= 2 /\ Cardinality(DOMAIN live) >= 1

\* the words of the block at q, header and footer included
BlockWords(q) == {a \in DOMAIN mem : a >= HDR(q) /\ a <= FTR(Cur, q)}

\* C13: a call of mm_malloc, mm_free or mm_realloc changes no word (header,
\* footer, payload) of a block the caller holds, other than the block being
\* freed or reallocated.
C13_OtherBlocksKept ==
    [][last'.op \in {"malloc", "free", "realloc"} =>
          \A q \in (DOMAIN live) \ {last'.ptr} :
              /\ q \in DOMAIN live'
              /\ \A a \in BlockWords(q) : a \in DOMAIN mem' /\ mem'[a] = mem[a]]_vars

\* a block was freed or moved while the caller held the block right before
\* it and another block
C13_Witness ==
    /\ Stable /\ last.op \in {"free", "realloc"} /\ last.ptr # NULL
    /\ Cardinality(DOMAIN live) >= 2
    /\ \E q \in DOMAIN live : PayloadEnd(q) + DWSIZE = last.ptr

\* the first node of the free list is the block that holds address a
FirstHolds(a) ==
    /\ FreeList # <<>>
    /\ FreeList[1] <= a /\ a < NEXT(Cur, FreeList[1])

\* the last call was mm_free(p), p not NULL, and has returned
Freed == Stable /\ last.op = "free" /\ last.ptr # NULL

\* the last call returned a block that is followed by a free block: the
\* remainder of a split (or, after mm_realloc, the old block)
SplitOff ==
    /\ Stable /\ last.op \in {"malloc", "realloc"} /\ last.ret # NULL
    /\ NEXT(Cur, last.ret) \in Range(Blocks) /\ IsFree(NEXT(Cur, last.ret))

\* C14 (as stated): after every mm_free(p), p not NULL, and after every split
\* in mm_malloc / mm_realloc, the free block that holds the freed or split-off
\* bytes is the first node of the free list.
C14_FreedIsFirst ==
    /\ Freed => FirstHolds(last.ptr)
    /\ SplitOff => FirstHolds(NEXT(Cur, last.ret))

\* C14 (amended): the same, except where the freed block was merged into a
\* free physical predecessor, which is then no start of a block any more.
C14_FreedIsFirstUnlessMergedBack ==
    /\ (Freed /\ last.ptr \in Range(Blocks)) => FreeList[1] = last.ptr
    /\ SplitOff => FreeList[1] = NEXT(Cur, last.ret)

\* a block was freed whose predecessor was allocated while another block was
\* on the free list
C14_Witness ==
    /\ Freed /\ last.ptr \in Range(Blocks) /\ Len(FreeList) >= 2
    /\ FreeList[1] = last.ptr

\* the free list of heap h, in list order
FreeListIn(h) == ListFrom(h, GET(h, SUCC(h.head)), Fuel)

\* the step frees the live block p (mm_free(p) or mm_realloc(p, 0)), and p's
\* physical predecessor is free
FreesAfterFree(p) ==
    /\ p # NULL /\ ~fault'
    /\ \/ last'.op = "free"
       \/ last'.op = "realloc" /\ last'.size = 0
    /\ ALLOC(Cur, HDR(PREV(Cur, p))) = 0

\* seq without the block at bp
Drop(seq, bp) == SelectSeq(seq, LAMBDA b : b # bp)

\* C15: when the block being freed has a free physical predecessor, the
\* free list after coalesce is the list before it, in the same order, less
\* the physical successor if that was free.
C15_PredecessorKeepsPlace ==
    [][FreesAfterFree(last'.ptr) =>
          FreeListIn(CurNext) = Drop(FreeList, NEXT(Cur, last'.ptr))]_vars

\* a block was merged into a free predecessor that is not the first node of
\* a free list of several nodes
C15_Witness ==
    /\ Freed /\ last.ptr \notin Range(Blocks)
    /\ Len(FreeList) >= 2 /\ ~FirstHolds(last.ptr)

\* the step is mm_free(p) on a live block p
FreesLive(p) == last'.op = "free" /\ p # NULL /\ ~fault'

\* p's physical neighbours that are free before the call
PrevFree(p) == ALLOC(Cur, HDR(PREV(Cur, p))) = 0
NextFree(p) == ALLOC(Cur, HDR(NEXT(Cur, p))) = 0

\* where the free block that takes up p starts, and its size
MergedStart(p) == IF PrevFree(p) THEN PREV(Cur, p) ELSE p

MergedSize(p) ==
    SIZE(Cur, HDR(p))
        + (IF PrevFree(p) THEN SIZE(Cur, HDR(PREV(Cur, p))) ELSE 0)
        + (IF NextFree(p) THEN SIZE(Cur, HDR(NEXT(Cur, p))) ELSE 0)

\* C16: after mm_free(p) on a live block, the surviving free block starts at
\* p's physical predecessor if that was free and at p otherwise, its size is
\* size(p) plus the sizes of the neighbours that were free, and coalesce
\* returns its address.
C16_MergedBlock ==
    [][FreesLive(last'.ptr) =>
          /\ GET(CurNext, HDR(MergedStart(last'.ptr)))
                 = PACK(MergedSize(last'.ptr), FREE)
          /\ GET(CurNext, MergedStart(last'.ptr) + MergedSize(last'.ptr) - DWSIZE)
                 = PACK(MergedSize(last'.ptr), FREE)
          /\ GET(CurNext, HDR(MergedStart(last'.ptr) + MergedSize(last'.ptr))) % 2
                 = ALLOCATED
          /\ coalesce(SetTags(Cur, last'.ptr, SIZE(Cur, HDR(last'.ptr)), FREE),
                      last'.ptr).ret = MergedStart(last'.ptr)]_vars

\* blocks A, B, C of the minimum size were allocated in a row; B was freed,
\* then A: one free block of both sizes starts at A, and C follows it
C16_Witness ==
    /\ Freed /\ last.ptr \in Range(Blocks) /\ IsFree(last.ptr)
    /\ SIZE(Cur, HDR(last.ptr)) = 2 * MINSIZE
    /\ NEXT(Cur, last.ptr) \in DOMAIN live

\* max(16, alignUp8(n) + 8), for n whose block size does not wrap
BlockSizeFor(n) ==
    IF ((n + 7) \div 8) * 8 + 8 < 16 THEN 16 ELSE ((n + 7) \div 8) * 8 + 8

\* positions in the free list of the blocks that can hold asize bytes
Fits(asize) ==
    {i \in 1..Len(FreeList) : SIZE(Cur, HDR(FreeList[i])) >= asize}

Least(S) == CHOOSE i \in S : \A j \in S : i <= j

LastBlock == Blocks[Len(Blocks)]

\* what mm_malloc(n) does in this step, told from the state before it
FirstFitOrGrow(n) ==
    IF Fits(BlockSizeFor(n)) # {}
    THEN /\ last'.ret = FreeList[Least(Fits(BlockSizeFor(n)))]
         /\ mem_brk' = mem_brk /\ ~last'.nomem /\ ~fault'
    ELSE \/ last'.nomem /\ mem_brk' = mem_brk
         \/ /\ ~last'.nomem /\ ~fault'
            /\ mem_brk' = mem_brk + (IF BlockSizeFor(n) > CHUNKSIZE
                                      THEN BlockSizeFor(n) ELSE CHUNKSIZE)
            /\ last'.ret = IF IsFree(LastBlock) THEN LastBlock ELSE mem_brk

\* C17: mm_malloc(n), n > 0, takes the first block in free-list order whose
\* size is at least asize; it calls mem_sbrk exactly when no block of the
\* list is that large, then asks for max(asize, CHUNKSIZE) bytes and merges
\* the new region into the last physical block when that block is free.
C17_FirstFitOrGrow ==
    [][(last'.op = "malloc" /\ last'.size \in Requests) =>
          FirstFitOrGrow(last'.size)]_vars

\* mm_malloc(4077) passed over a smaller free block, grew the heap and left
\* a remainder: two blocks are on the free list
C17_Witness ==
    /\ Stable /\ last.op = "malloc" /\ last.size = 4077 /\ last.ret # NULL
    /\ Granted >= 6 * WSIZE + 2 * CHUNKSIZE
    /\ Len(FreeList) >= 2
    /\ \E i \in 1..Len(FreeList) : FreeList[i] < last.ret

\* the step is a call of mm_malloc or mm_realloc that returned a block
Allocated ==
    /\ last'.op \in {"malloc", "realloc"} /\ last'.size \in Requests
    /\ last'.ret # NULL /\ ~fault'

\* size of the free block the call chose, told from the state before it: a
\* block of the free list, or the grown region with the free block before it
ChosenSize(asize) ==
    IF Fits(asize) # {} THEN SIZE(Cur, HDR(FreeList[Least(Fits(asize))]))
    ELSE (IF asize > CHUNKSIZE THEN asize ELSE CHUNKSIZE)
             + (IF IsFree(LastBlock) THEN SIZE(Cur, HDR(LastBlock)) ELSE 0)

\* the block at q was split off a block of fsize bytes, asize of them taken:
\* mm_malloc leaves it as it is; mm_realloc may have merged the old block,
\* freed before the split, into it
SplitAs(q, asize, fsize) ==
    /\ ALLOC(CurNext, HDR(q)) = FREE
    /\ \E i \in 1..Len(FreeListIn(CurNext)) : FreeListIn(CurNext)[i] = q
    /\ IF last'.op = "malloc" \/ last'.ptr = NULL
       THEN SIZE(CurNext, HDR(q)) = fsize - asize
       ELSE SIZE(CurNext, HDR(q)) >= fsize - asize

Whole(q, asize, fsize) ==
    /\ GET(CurNext, HDR(q)) = PACK(fsize, ALLOCATED)
    /\ last'.op = "malloc" =>
          /\ ALLOC(CurNext, HDR(q + fsize)) = ALLOCATED
          /\ FreeListIn(CurNext) = Drop(FreeList, q)

SplitRule(q, asize, fsize) ==
    IF fsize - asize >= MINSIZE
    THEN /\ GET(CurNext, HDR(q)) = PACK(asize, ALLOCATED)
         /\ SplitAs(q + asize, asize, fsize)
    ELSE Whole(q, asize, fsize)

\* C18: with fsize the size of the chosen free block and asize =
\* max(16, alignUp8(n) + 8): if fsize - asize >= 16 the allocated block has
\* size asize and the other fsize - asize bytes are a free block on the free
\* list after the call; otherwise the allocated block has size fsize and no
\* remainder is made.
C18_SplitRule ==
    [][Allocated =>
          SplitRule(last'.ret, BlockSizeFor(last'.size),
                    ChosenSize(BlockSizeFor(last'.size)))]_vars

\* mm_malloc(1) on the heap as mm_init left it: a block of 16 bytes, and the
\* other 4080 bytes are the one block of the free list
C18_Witness ==
    /\ Stable /\ last.op = "malloc" /\ last.size = 1 /\ calls = 1
    /\ last.ret = NEXT(Cur, head)
    /\ GET(Cur, HDR(last.ret)) = PACK(MINSIZE, ALLOCATED)
    /\ FreeList = <<last.ret + MINSIZE>>
    /\ SIZE(Cur, HDR(last.ret + MINSIZE)) = CHUNKSIZE - MINSIZE

\* header and footer of the block at bp hold the same word
TagsAgree(bp) ==
    /\ FTR(Cur, bp) \in DOMAIN mem
    /\ GET(Cur, FTR(Cur, bp)) = GET(Cur, HDR(bp))

\* where the walk over the blocks stopped
BlocksEnd ==
    IF Blocks = <<>> THEN NEXT(Cur, head) ELSE NEXT(Cur, Blocks[Len(Blocks)])

\* C19: after mm_init and after every completed call, every block between
\* the prologue and the epilogue has a size that is a multiple of 8 and at
\* least 16, and a footer equal to its header; the block after the last one
\* is the epilogue, size 0 and allocated, at the end of the granted region;
\* the prologue has size 16 and is allocated.
C19_BlocksWellFormed ==
    Stable =>
        /\ \A i \in 1..Len(Blocks) :
              /\ SIZE(Cur, HDR(Blocks[i])) % DWSIZE = 0
              /\ SIZE(Cur, HDR(Blocks[i])) >= MINSIZE
              /\ TagsAgree(Blocks[i])
        /\ BlocksEnd = mem_brk
        /\ GET(Cur, HDR(mem_brk)) = PACK(0, ALLOCATED)
        /\ GET(Cur, HDR(head)) = PACK(4 * WSIZE, ALLOCATED)
        /\ GET(Cur, FTR(Cur, head)) = PACK(4 * WSIZE, ALLOCATED)

\* the heap has grown, holds allocated and free blocks, one of them of the
\* minimum size, and the last call freed or moved a block
C19_Witness ==
    /\ Stable /\ last.op \in {"free", "realloc"} /\ last.ptr # NULL
    /\ Granted > 6 * WSIZE + CHUNKSIZE
    /\ Len(Blocks) >= 4
    /\ \E i, j, k \in 1..Len(Blocks) :
          /\ IsFree(Blocks[i]) /\ ~IsFree(Blocks[j])
          /\ SIZE(Cur, HDR(Blocks[k])) = MINSIZE

\* the successor link of the last node the scan from the sentinel reached
ListEnd ==
    IF FreeList = <<>> THEN GET(Cur, SUCC(head))
    ELSE GET(Cur, SUCC(FreeList[Len(FreeList)]))

\* C20: in every reachable state the free list is a finite doubly linked
\* list: the first node's predecessor link is the sentinel, the predecessor
\* link of every node's successor is that node, and the chain from the
\* sentinel reaches a null successor without visiting a node twice.
C20_ListWellFormed ==
    Stable =>
        /\ ListEnd = NULL
        /\ Cardinality(Range(FreeList)) = Len(FreeList)
        /\ FreeList # <<>> => GET(Cur, PRED(FreeList[1])) = head
        /\ \A i \in 1..(Len(FreeList) - 1) :
              GET(Cur, PRED(FreeList[i + 1])) = FreeList[i]

\* a call took a block off a free list that still has three nodes
C20_Witness ==
    /\ Stable /\ last.op \in {"malloc", "realloc"} /\ last.ret # NULL
    /\ calls >= 4
    /\ Len(FreeList) >= 3

====
